---- MODULE Spec2Model ----
(***************************************************************************)
(* The filter / aggregate / join / rank pipeline of the Plume DeFi fees    *)
(* and revenue dashboard (src/app.py).  Streamlit runs the whole script    *)
(* once at start and once more after every change of a sidebar widget, so  *)
(* the state is the widgets' selection plus everything one run computes,   *)
(* and every action is one widget change followed by the whole script.     *)
(*                                                                         *)
(* A DataFrame is a record [columns, rows]: the set of its column names    *)
(* and the sequence of its rows, each row a function from the column       *)
(* names to values.  Protocol names and category names are numbered in     *)
(* their sort order, amounts are whole non-negative numbers.               *)
(***************************************************************************)
EXTENDS Integers, Sequences, FiniteSets, TLC

VARIABLES
    database,                  \* the four joblib files under database/
    df_protocols_tvl,          \* the four frames as loaded by the last run
    df_protocols_revenue,
    df_protocols_fees,
    df_protocols_market_data,
    selected_protocols,        \* value of the "Select Protocol(s)" multiselect
    selected_categories,       \* value of the "Filter by Category" multiselect
    filtered_tvl,
    filtered_fees,
    filtered_revenue,
    filtered_market,
    kpi,                       \* the raw numbers behind the three KPI cards
    cards,                     \* the three KPI cards as shown
    overview_df,               \* the merged TVL / market frame
    overview_shown,            \* the overview table as shown
    top_tvl,
    top_revenue,
    top_fees,
    rendered,                  \* the tables and charts the run has drawn
    error,                     \* the exception that stopped the run, if any
    loaded0,                   \* history: the files as they were at start
    amount,                    \* argument of the last format_currency call
    formatted                  \* its result

vars == <<database, df_protocols_tvl, df_protocols_revenue, df_protocols_fees,
          df_protocols_market_data, selected_protocols, selected_categories,
          filtered_tvl, filtered_fees, filtered_revenue, filtered_market,
          kpi, cards, overview_df, overview_shown, top_tvl, top_revenue,
          top_fees, rendered, error, loaded0, amount, formatted>>

----------------------------------------------------------------------------
(* Bounds of the model *)

\* Most rows of a table that is enumerated exhaustively.
MaxRows == 2

\* Largest amount in a table that is enumerated exhaustively.
MaxValue == 1

\* Number of category names.
NumCategories == 2

\* Largest mantissa of the amounts given to the currency formatter.
MaxMantissa == 12

----------------------------------------------------------------------------
(* Values *)

\* pandas' missing value; every real amount and every name is >= 0.
NaN == -1

\* Python's None, as an argument of format_currency.
None == -2

\* nlargest(10, ...)
TopN == 10

\* protocols[:5] if len(protocols) > 5
DefaultCount == 5

Min(a, b) == IF a <= b THEN a ELSE b

Range(s) == {s[i] : i \in 1..Len(s)}

\* A DataFrame.
Frame(cols, rows) == [columns |-> cols, rows |-> rows]

\* A frame that was never assigned (the statement that builds it did not run).
NoFrame == Frame({}, <<>>)

\* len(df)
len(df) == Len(df.rows)

\* df.empty
empty(df) == df.columns = {} \/ Len(df.rows) = 0

\* df[col] as a sequence; the caller has checked col \in df.columns.
Column(df, col) == [i \in 1..Len(df.rows) |-> df.rows[i][col]]

\* set(df[col])
Values(df, col) == {df.rows[i][col] : i \in 1..Len(df.rows)}

----------------------------------------------------------------------------
(* pandas and Python, as the script uses them *)

\* df[df[col].isin(values)]: the rows whose col is among values, in order,
\* with every column.
isin(df, col, values) ==
    Frame(df.columns, SelectSeq(df.rows, LAMBDA r : r[col] \in values))

\* The k smallest members of a set of numbers: sorted(S)[:k].
FirstK(S, k) == {x \in S : Cardinality({y \in S : y < x}) < k}

RECURSIVE SumSeq(_)
SumSeq(s) ==
    IF s = <<>> THEN 0
    ELSE (IF Head(s) = NaN THEN 0 ELSE Head(s)) + SumSeq(Tail(s))

\* A sum that does not skip missing values: NaN as soon as one is met.
sum_keepna(df, col) ==
    IF NaN \in Values(df, col) THEN NaN ELSE SumSeq(Column(df, col))

\* df[col].sum(): missing values are skipped, the sum of nothing is 0.
sum(df, col) == SumSeq(Column(df, col))

\* Row i comes before row j in descending order of col; equal values keep
\* their order (keep='first'), and NaN, the least value here, comes last.
Before(rows, col, i, j) ==
    \/ rows[i][col] > rows[j][col]
    \/ rows[i][col] = rows[j][col] /\ i < j

\* df.nlargest(n, col)
nlargest(n, df, col) ==
    LET rows == df.rows
        pos(i) == Cardinality({j \in 1..Len(rows) : Before(rows, col, j, i)}) + 1
        at(k) == CHOOSE i \in 1..Len(rows) : pos(i) = k
    IN Frame(df.columns, [k \in 1..Min(n, Len(rows)) |-> rows[at(k)]])

RECURSIVE Flatten(_)
Flatten(ss) == IF ss = <<>> THEN <<>> ELSE Head(ss) \o Flatten(Tail(ss))

\* pd.merge(left, right, on=key, how='left'): every left row in order, once
\* per right row with the same key, or once with the right columns missing
\* when there is none.
merge_left(left, right, key) ==
    LET extra == right.columns \ left.columns
        joined(l) ==
            LET ms == SelectSeq(right.rows, LAMBDA r : r[key] = l[key])
            IN IF ms = <<>> THEN << l @@ [c \in extra |-> NaN] >>
               ELSE [k \in 1..Len(ms) |-> l @@ ms[k]]
    IN Frame(left.columns \cup right.columns,
             Flatten([i \in 1..Len(left.rows) |-> joined(left.rows[i])]))

\* df[cols]
project(df, cols) ==
    Frame(cols, [i \in 1..Len(df.rows) |-> [c \in cols |-> df.rows[i][c]]])

\* f"{amount/unit:.2f}" in hundredths.  The quotient is rounded to the
\* nearest hundredth; Python rounds the binary quotient half to even, and no
\* amount of the model is exactly half-way.
Hundredths(amt, unit) ==
    IF unit = 1 THEN amt * 100
    ELSE LET step == unit \div 100
             q == amt \div step
             r == amt % step
         IN IF 2 * r > step \/ (2 * r = step /\ q % 2 = 1) THEN q + 1 ELSE q

\* The digits of a number of hundredths with two decimals.
Fixed2(h) ==
    ToString(h \div 100) \o "." \o ToString((h % 100) \div 10) \o ToString(h % 10)

\* format_currency with > for >= in the three thresholds.
format_currency_gt(amt) ==
    IF amt = None \/ amt = NaN \/ amt = 0 THEN "$0"
    ELSE IF amt > 1000000000 THEN "$" \o Fixed2(Hundredths(amt, 1000000000)) \o "B"
    ELSE IF amt > 1000000 THEN "$" \o Fixed2(Hundredths(amt, 1000000)) \o "M"
    ELSE IF amt > 1000 THEN "$" \o Fixed2(Hundredths(amt, 1000)) \o "K"
    ELSE "$" \o Fixed2(Hundredths(amt, 1))

format_currency(amt) ==
    IF amt = None \/ amt = NaN \/ amt = 0 THEN "$0"
    ELSE IF amt >= 1000000000 THEN "$" \o Fixed2(Hundredths(amt, 1000000000)) \o "B"
    ELSE IF amt >= 1000000 THEN "$" \o Fixed2(Hundredths(amt, 1000000)) \o "M"
    ELSE IF amt >= 1000 THEN "$" \o Fixed2(Hundredths(amt, 1000)) \o "K"
    ELSE "$" \o Fixed2(Hundredths(amt, 1))

----------------------------------------------------------------------------
(* The script, top to bottom *)

\* joblib.load: the frame stored in the file.
joblib_load(file) == file

\* sorted(df_protocols_tvl['Protocol'].unique()), the options of the first
\* multiselect.
protocols(tvl) == Values(tvl, "Protocol")

\* protocols[:5] if len(protocols) > 5 else protocols
default_protocols(tvl) ==
    IF Cardinality(protocols(tvl)) > DefaultCount
    THEN FirstK(protocols(tvl), DefaultCount)
    ELSE protocols(tvl)

\* The options, and the default, of the second multiselect.
categories(tvl) ==
    IF "Category" \in tvl.columns THEN Values(tvl, "Category") \ {NaN} ELSE {}

\* filtered_tvl['Category'] raises KeyError when the column is missing.
FilterRaises(tvl, sc) == sc # {} /\ "Category" \notin tvl.columns

\* The filter with the protocol test left out.
FilterTvl_categoryonly(tvl, sp, sc) ==
    IF sc # {} THEN isin(tvl, "Category", sc) ELSE tvl

\* The filter with the category test applied to an empty selection too.
FilterTvl_always(tvl, sp, sc) ==
    IF "Category" \in tvl.columns
    THEN isin(isin(tvl, "Protocol", sp), "Category", sc)
    ELSE isin(tvl, "Protocol", sp)

\* filtered_tvl, when the filter does not raise.
FilterTvl(tvl, sp, sc) ==
    IF sc # {}
    THEN isin(isin(tvl, "Protocol", sp), "Category", sc)
    ELSE isin(tvl, "Protocol", sp)

\* A table passed on without the membership test.
FilterByTvl_all(df, ftvl) == df

\* df[df['Protocol'].isin(filtered_tvl['Protocol'])]
FilterByTvl(df, ftvl) == isin(df, "Protocol", Values(ftvl, "Protocol"))

\* The arguments of str() and format_currency() in the three KPI cards.
Kpi(ftvl, fmarket) ==
    [protocols |-> len(ftvl),
     total_tvl |-> sum(ftvl, "TVL (USD)"),
     total_market_cap |->
         IF "Market Cap (USD)" \in fmarket.columns
         THEN sum(fmarket, "Market Cap (USD)")
         ELSE 0]

\* The three KPI cards.
Cards(k) ==
    [protocols |-> ToString(k.protocols),
     total_tvl |-> format_currency(k.total_tvl),
     total_market_cap |-> format_currency(k.total_market_cap)]

overview_cols(ftvl, fmarket) ==
    ({"Protocol", "Category", "TVL (USD)"} \cap ftvl.columns)
    \cup ({"Market Cap (USD)", "Current Price (USD)"} \cap fmarket.columns)

\* overview_df[overview_cols] with the TVL column through format_currency.
OverviewShown(merged, cols) ==
    LET shown == project(merged, cols)
    IN Frame(cols,
             [i \in 1..Len(shown.rows) |->
                 [c \in cols |->
                     IF c = "TVL (USD)" THEN format_currency(shown.rows[i][c])
                     ELSE shown.rows[i][c]]])

\* px.bar(df, ..., color=color) raises ValueError when color names no column
\* of df.
px_bar_raises(df, color) == color \notin df.columns

\* One run of the script on the files db with the two selections: every
\* value it assigns and every element it draws.
Run(db, sp, sc) ==
    LET tvl == joblib_load(db.tvl)
        revenue == joblib_load(db.revenue)
        fees == joblib_load(db.fees)
        market == joblib_load(db.market)
        keyerror == FilterRaises(tvl, sc)
        ftvl == IF keyerror THEN NoFrame ELSE FilterTvl(tvl, sp, sc)
        ffees == IF keyerror THEN NoFrame ELSE FilterByTvl(fees, ftvl)
        frevenue == IF keyerror THEN NoFrame ELSE FilterByTvl(revenue, ftvl)
        fmarket == IF keyerror THEN NoFrame ELSE FilterByTvl(market, ftvl)
        k == Kpi(ftvl, fmarket)
        merged == merge_left(ftvl, fmarket, "Protocol")
        ttvl == nlargest(TopN, ftvl, "TVL (USD)")
        valueerror == px_bar_raises(ttvl, "Category")
        stopped == keyerror \/ valueerror
        showrev == ~stopped /\ ~empty(frevenue)
        showfees == ~stopped /\ ~empty(ffees)
        showmarket == ~stopped /\ ~empty(fmarket)
    IN [df_protocols_tvl |-> tvl,
        df_protocols_revenue |-> revenue,
        df_protocols_fees |-> fees,
        df_protocols_market_data |-> market,
        filtered_tvl |-> ftvl,
        filtered_fees |-> ffees,
        filtered_revenue |-> frevenue,
        filtered_market |-> fmarket,
        kpi |-> IF keyerror THEN [protocols |-> 0, total_tvl |-> 0, total_market_cap |-> 0]
                ELSE k,
        cards |-> IF keyerror THEN [protocols |-> "", total_tvl |-> "", total_market_cap |-> ""]
                  ELSE Cards(k),
        overview_df |-> IF keyerror THEN NoFrame ELSE merged,
        overview_shown |->
            IF keyerror THEN NoFrame
            ELSE OverviewShown(merged, overview_cols(ftvl, fmarket)),
        top_tvl |-> IF keyerror THEN NoFrame ELSE ttvl,
        top_revenue |->
            IF showrev THEN nlargest(TopN, frevenue, "24h Revenue (USD)") ELSE NoFrame,
        top_fees |->
            IF showfees THEN nlargest(TopN, ffees, "24h Fees (USD)") ELSE NoFrame,
        rendered |->
            (IF keyerror THEN {} ELSE {"kpi", "overview"})
            \cup (IF stopped THEN {} ELSE {"tvl_chart"})
            \cup (IF showrev THEN {"revenue_table", "revenue_chart"} ELSE {})
            \cup (IF showfees THEN {"fees_table", "fees_chart"} ELSE {})
            \cup (IF showmarket THEN {"market_table"} ELSE {}),
        error |-> IF keyerror THEN "KeyError"
                  ELSE IF valueerror THEN "ValueError"
                  ELSE "none"]

\* The variables one run assigns take the values of the run out.
Assign(out) ==
    /\ df_protocols_tvl' = out.df_protocols_tvl
    /\ df_protocols_revenue' = out.df_protocols_revenue
    /\ df_protocols_fees' = out.df_protocols_fees
    /\ df_protocols_market_data' = out.df_protocols_market_data
    /\ filtered_tvl' = out.filtered_tvl
    /\ filtered_fees' = out.filtered_fees
    /\ filtered_revenue' = out.filtered_revenue
    /\ filtered_market' = out.filtered_market
    /\ kpi' = out.kpi
    /\ cards' = out.cards
    /\ overview_df' = out.overview_df
    /\ overview_shown' = out.overview_shown
    /\ top_tvl' = out.top_tvl
    /\ top_revenue' = out.top_revenue
    /\ top_fees' = out.top_fees
    /\ rendered' = out.rendered
    /\ error' = out.error

\* A run that writes its filtered TVL frame back over the TVL file.
Rerun_inplace(sp, sc) ==
    /\ selected_protocols' = sp
    /\ selected_categories' = sc
    /\ Assign(Run(database, sp, sc))
    /\ database' = [database EXCEPT !.tvl = FilterTvl(database.tvl, sp, sc)]
    /\ UNCHANGED <<loaded0, amount, formatted>>

\* Streamlit reruns the script with the widgets' new values; the script
\* reads the files and writes none.
Rerun(sp, sc) ==
    /\ selected_protocols' = sp
    /\ selected_categories' = sc
    /\ Assign(Run(database, sp, sc))
    /\ UNCHANGED <<database, loaded0, amount, formatted>>

----------------------------------------------------------------------------
(* The files the dashboard is started on *)

TvlColumns == {"Protocol", "Category", "TVL (USD)"}

TvlRow(p, c, v) == ("Protocol" :> p) @@ ("Category" :> c) @@ ("TVL (USD)" :> v)

TvlRowNoCategory(p, v) == ("Protocol" :> p) @@ ("TVL (USD)" :> v)

RevenueColumns ==
    {"Protocol", "24h Revenue (USD)", "7d Revenue (USD)", "30d Revenue (USD)",
     "Total Revenue (USD)"}

RevenueRow(p, v) ==
    ("Protocol" :> p) @@ ("24h Revenue (USD)" :> v) @@ ("7d Revenue (USD)" :> 7 * v)
    @@ ("30d Revenue (USD)" :> 30 * v) @@ ("Total Revenue (USD)" :> 100 * v)

FeesColumns ==
    {"Protocol", "24h Fees (USD)", "7d Fees (USD)", "30d Fees (USD)",
     "Total Fees (USD)"}

FeesRow(p, v) ==
    ("Protocol" :> p) @@ ("24h Fees (USD)" :> v) @@ ("7d Fees (USD)" :> 7 * v)
    @@ ("30d Fees (USD)" :> 30 * v) @@ ("Total Fees (USD)" :> 100 * v)

\* A market row with the columns cols: the cap is m, the price is the
\* protocol's number.
MarketRow(cols, p, m) ==
    [c \in cols |-> IF c = "Protocol" THEN p
                    ELSE IF c = "Market Cap (USD)" THEN m ELSE p]

MarketColumnSets ==
    {{"Protocol"} \cup opt : opt \in SUBSET {"Market Cap (USD)", "Current Price (USD)"}}

CategoryNames == 1..NumCategories

Amounts0 == 0..MaxValue

\* The sequences of at most n members of S.
SeqUpTo(S, n) == UNION {[1..k -> S] : k \in 0..n}

\* The category and the amount of row i of a TVL file when the other of the
\* two is the one varied: the last row has no category, the first no amount.
PatternCategory(i, n) == IF i = n THEN NaN ELSE ((i - 1) % NumCategories) + 1

PatternAmount(i) == IF i = 1 THEN NaN ELSE i % (MaxValue + 1)

\* TVL files: one row per protocol (Protocol is the key of the table), the
\* names in descending order; every assignment of a category or none to the
\* rows, and every assignment of an amount or none, with and without the
\* Category column.
TvlFiles ==
    UNION {
        {Frame(TvlColumns, [i \in 1..n |-> TvlRow(n + 1 - i, c[i], PatternAmount(i))]) :
            c \in [1..n -> CategoryNames \cup {NaN}]}
        \cup
        {Frame(TvlColumns, [i \in 1..n |-> TvlRow(n + 1 - i, PatternCategory(i, n), v[i])]) :
            v \in [1..n -> Amounts0 \cup {NaN}]}
        \cup
        {Frame(TvlColumns \ {"Category"},
               [i \in 1..n |-> TvlRowNoCategory(n + 1 - i, v[i])]) :
            v \in [1..n -> Amounts0 \cup {NaN}]}
        : n \in 0..MaxRows}

\* Protocol names of the revenue and fees files: those of the fullest TVL
\* file and one more, which no TVL file has.
ProtocolNames == 1..(MaxRows + 1)

\* Revenue and fees files: any rows, a protocol any number of times.
RevenueFiles ==
    {Frame(RevenueColumns, [i \in 1..Len(r) |-> RevenueRow(r[i][1], r[i][2])]) :
        r \in SeqUpTo(ProtocolNames \X Amounts0, MaxRows)}

FeesFiles ==
    {Frame(FeesColumns, [i \in 1..Len(r) |-> FeesRow(r[i][1], r[i][2])]) :
        r \in SeqUpTo(ProtocolNames \X Amounts0, MaxRows)}

\* Market files: with or without each of the two optional columns, any
\* rows, a protocol any number of times, the cap any amount or none.
MarketFiles ==
    UNION {
        {Frame(cols, [i \in 1..Len(r) |-> MarketRow(cols, r[i][1], r[i][2])]) :
            r \in SeqUpTo((1..MaxRows) \X
                          (IF "Market Cap (USD)" \in cols THEN Amounts0 \cup {NaN} ELSE {0}),
                          MaxRows)}
        : cols \in MarketColumnSets}

\* The files held fixed while one of them is varied: a row for each of
\* MaxRows protocols, protocol 1 without a category.
RefTvl ==
    Frame(TvlColumns,
          [i \in 1..MaxRows |->
              TvlRow(MaxRows + 1 - i, IF i = MaxRows THEN NaN ELSE 1, i % (MaxValue + 1))])

RefRevenue ==
    Frame(RevenueColumns, [i \in 1..MaxRows |-> RevenueRow(i, i % (MaxValue + 1))])

RefFees ==
    Frame(FeesColumns, [i \in 1..MaxRows |-> FeesRow(i, (i + 1) % (MaxValue + 1))])

RefMarket ==
    Frame({"Protocol", "Market Cap (USD)", "Current Price (USD)"},
          [i \in 1..MaxRows |->
              MarketRow({"Protocol", "Market Cap (USD)", "Current Price (USD)"}, i, i)])

\* Files with more rows than a ranking keeps: TopN + 1 protocols, amounts
\* that repeat, and revenue and fees rows in another order than the TVL rows.
RankRows == TopN + 1

LargeTvl ==
    Frame(TvlColumns, [i \in 1..RankRows |-> TvlRow(RankRows + 1 - i, 1, i % 4)])

LargeTvlNoCategory ==
    Frame(TvlColumns \ {"Category"},
          [i \in 1..RankRows |-> TvlRowNoCategory(RankRows + 1 - i, i % 4)])

\* The first row names a protocol the TVL file does not have, protocol 1 has
\* no row, protocols 2 and 3 have two.
LargeRevenue ==
    Frame(RevenueColumns,
          [i \in 1..(RankRows + 2) |->
              RevenueRow(IF i = 1 THEN RankRows + 1 ELSE ((i - 2) % (RankRows - 1)) + 2,
                         (i * i) % 5)])

LargeFees ==
    Frame(FeesColumns,
          [i \in 1..(RankRows + 1) |-> FeesRow(((i * 3) % RankRows) + 1, i % 3)])

Db(tvl, revenue, fees, market) ==
    [tvl |-> tvl, revenue |-> revenue, fees |-> fees, market |-> market]

Databases ==
    {Db(t, RefRevenue, RefFees, RefMarket) : t \in TvlFiles}
    \cup {Db(RefTvl, r, RefFees, RefMarket) : r \in RevenueFiles}
    \cup {Db(RefTvl, RefRevenue, f, RefMarket) : f \in FeesFiles}
    \cup {Db(RefTvl, RefRevenue, RefFees, m) : m \in MarketFiles}
    \cup {Db(LargeTvl, LargeRevenue, LargeFees, RefMarket),
          Db(LargeTvlNoCategory, LargeRevenue, LargeFees, RefMarket)}

----------------------------------------------------------------------------
(* The dashboard *)

\* The first run: both widgets at their defaults.
Init ==
    /\ database \in Databases
    /\ loaded0 = database
    /\ selected_protocols = default_protocols(database.tvl)
    /\ selected_categories = categories(database.tvl)
    /\ LET out == Run(database, selected_protocols, selected_categories)
       IN /\ df_protocols_tvl = out.df_protocols_tvl
          /\ df_protocols_revenue = out.df_protocols_revenue
          /\ df_protocols_fees = out.df_protocols_fees
          /\ df_protocols_market_data = out.df_protocols_market_data
          /\ filtered_tvl = out.filtered_tvl
          /\ filtered_fees = out.filtered_fees
          /\ filtered_revenue = out.filtered_revenue
          /\ filtered_market = out.filtered_market
          /\ kpi = out.kpi
          /\ cards = out.cards
          /\ overview_df = out.overview_df
          /\ overview_shown = out.overview_shown
          /\ top_tvl = out.top_tvl
          /\ top_revenue = out.top_revenue
          /\ top_fees = out.top_fees
          /\ rendered = out.rendered
          /\ error = out.error
    /\ amount = None
    /\ formatted = format_currency(None)

\* The analyst adds a protocol to the first multiselect.
SelectProtocol(p) ==
    /\ p \in protocols(df_protocols_tvl) \ selected_protocols
    /\ Rerun(selected_protocols \cup {p}, selected_categories)

\* The analyst removes a protocol from the first multiselect.
DeselectProtocol(p) ==
    /\ p \in selected_protocols
    /\ Rerun(selected_protocols \ {p}, selected_categories)

\* The analyst adds a category to the second multiselect.
SelectCategory(c) ==
    /\ c \in categories(df_protocols_tvl) \ selected_categories
    /\ Rerun(selected_protocols, selected_categories \cup {c})

\* The analyst removes a category from the second multiselect.
DeselectCategory(c) ==
    /\ c \in selected_categories
    /\ Rerun(selected_protocols, selected_categories \ {c})

Next ==
    \/ \E p \in 1..RankRows : SelectProtocol(p)
    \/ \E p \in 1..RankRows : DeselectProtocol(p)
    \/ \E c \in CategoryNames : SelectCategory(c)
    \/ \E c \in CategoryNames : DeselectCategory(c)

Spec == Init /\ [][Next]_vars

----------------------------------------------------------------------------
(* The currency formatter on its own *)

\* Amounts around every power of ten up to 10^9 and its multiples, with
\* Python's None and pandas' NaN.
Amounts ==
    {None, NaN, 0}
    \cup {t[1] * 10^t[2] + t[3] :
            t \in {u \in (1..MaxMantissa) \X (0..9) \X {-1, 0, 1} :
                      u[1] <= (2 * 10^9) \div 10^u[2]}}

\* format_currency(a)
Format(a) ==
    /\ amount' = a
    /\ formatted' = format_currency(a)
    /\ UNCHANGED <<database, df_protocols_tvl, df_protocols_revenue,
                   df_protocols_fees, df_protocols_market_data,
                   selected_protocols, selected_categories, filtered_tvl,
                   filtered_fees, filtered_revenue, filtered_market, kpi, cards,
                   overview_df, overview_shown, top_tvl, top_revenue, top_fees,
                   rendered, error, loaded0>>

\* The dashboard is up, on the reference files.
InitFormat == database = Db(RefTvl, RefRevenue, RefFees, RefMarket) /\ Init

NextFormat == \E a \in Amounts : Format(a)

SpecFormat == InitFormat /\ [][NextFormat]_vars

----------------------------------------------------------------------------
(* Properties *)

HasCategory == "Category" \in df_protocols_tvl.columns

\* The rows of a frame as a set.
Rows(df) == Range(df.rows)

\* The sum of a column with a missing value counted as 0.
RECURSIVE TotalUpTo(_, _, _)
TotalUpTo(df, col, n) ==
    IF n = 0 THEN 0
    ELSE TotalUpTo(df, col, n - 1)
         + (IF df.rows[n][col] = NaN THEN 0 ELSE df.rows[n][col])

\* The rows of df whose Protocol is among keys, in order, with every column.
Kept(df, keys) ==
    Frame(df.columns, SelectSeq(df.rows, LAMBDA r : r["Protocol"] \in keys))

\* C1 as stated: whatever the category selection, the Protocol values of the
\* filtered TVL table are exactly the original Protocol values that are in
\* the selected-protocol set.
C1_FilterIsIntersection ==
    Values(filtered_tvl, "Protocol")
        = Values(df_protocols_tvl, "Protocol") \cap selected_protocols

\* C1 as amended: the Protocol values of the filtered TVL table are exactly
\* those of the original rows whose Protocol is selected and, when the
\* category selection is not empty, whose Category is selected; with an
\* empty category selection they are the whole intersection of the original
\* Protocol values and the selected-protocol set, otherwise a subset of it.
C1_FilterByProtocolAndCategory ==
    /\ Values(filtered_tvl, "Protocol")
         = {r["Protocol"] :
               r \in {q \in Rows(df_protocols_tvl) :
                         /\ q["Protocol"] \in selected_protocols
                         /\ selected_categories = {} \/ q["Category"] \in selected_categories}}
    /\ Values(filtered_tvl, "Protocol")
         \subseteq Values(df_protocols_tvl, "Protocol") \cap selected_protocols
    /\ selected_categories = {}
         => C1_FilterIsIntersection

\* A selected protocol is left out by the category selection while another
\* one passes.
C1_Witness ==
    /\ selected_categories # {}
    /\ filtered_tvl.rows # <<>>
    /\ Values(filtered_tvl, "Protocol")
         # Values(df_protocols_tvl, "Protocol") \cap selected_protocols

\* C2: each of the filtered revenue, fees and market tables is its input
\* table restricted to the rows whose Protocol is in the filtered TVL table,
\* in the input's order and with the input's columns, and the filter raises
\* nothing, also when a protocol has no row in one of them.
C2_CrossTableConsistency ==
    LET keys == Values(filtered_tvl, "Protocol")
    IN /\ filtered_revenue = Kept(df_protocols_revenue, keys)
       /\ filtered_fees = Kept(df_protocols_fees, keys)
       /\ filtered_market = Kept(df_protocols_market_data, keys)
       /\ \A df \in {filtered_revenue, filtered_fees, filtered_market} :
             Values(df, "Protocol") \subseteq keys
       /\ error # "KeyError"

\* A protocol of the filtered TVL table has no revenue row, a revenue row was
\* dropped, and two revenue rows were kept.
C2_Witness ==
    /\ Values(filtered_tvl, "Protocol") \ Values(df_protocols_revenue, "Protocol") # {}
    /\ Len(filtered_revenue.rows) >= 2
    /\ Len(filtered_revenue.rows) < Len(df_protocols_revenue.rows)

\* C3: every row of the filtered TVL table appears exactly once in the
\* merged overview, which has as many rows as the filtered TVL table; the
\* market fields of a row without a market row are missing.
C3_JoinCompleteness ==
    /\ Len(overview_df.rows) = Len(filtered_tvl.rows)
    /\ \A i \in 1..Len(filtered_tvl.rows) :
          /\ Cardinality({k \in 1..Len(overview_df.rows) :
                            \A c \in filtered_tvl.columns :
                                overview_df.rows[k][c] = filtered_tvl.rows[i][c]}) = 1
          /\ filtered_tvl.rows[i]["Protocol"] \notin Values(filtered_market, "Protocol")
                => \E k \in 1..Len(overview_df.rows) :
                      /\ overview_df.rows[k]["Protocol"] = filtered_tvl.rows[i]["Protocol"]
                      /\ \A c \in filtered_market.columns \ filtered_tvl.columns :
                            overview_df.rows[k][c] = NaN

\* top is the ranking of df by col: min(TopN, rows) rows, in descending
\* order; the rows of each amount are the first rows of df with that amount,
\* in the order of df; and every row of df above a ranked amount is ranked.
IsRanking(top, df, col) ==
    /\ Len(top.rows) = Min(TopN, Len(df.rows))
    /\ \A k \in 1..(Len(top.rows) - 1) : top.rows[k][col] >= top.rows[k + 1][col]
    /\ \A x \in Values(top, col) :
          LET t == SelectSeq(top.rows, LAMBDA r : r[col] = x)
              d == SelectSeq(df.rows, LAMBDA r : r[col] = x)
          IN /\ Len(t) <= Len(d)
             /\ t = SubSeq(d, 1, Len(t))
             /\ Len(SelectSeq(df.rows, LAMBDA r : r[col] > x))
                  = Len(SelectSeq(top.rows, LAMBDA r : r[col] > x))

\* C4: each of the three rankings is the ranking of its filtered table by
\* its metric.
C4_TopNRanking ==
    /\ IsRanking(top_tvl, filtered_tvl, "TVL (USD)")
    /\ IsRanking(top_revenue, filtered_revenue, "24h Revenue (USD)")
    /\ IsRanking(top_fees, filtered_fees, "24h Fees (USD)")

\* The same for the runs that reach the end of the script.
RankingWhenNotStopped == error = "none" => C4_TopNRanking

\* C5: the protocol count is the number of rows of the filtered TVL table,
\* the total TVL is the sum of its TVL column with a missing value counted
\* as 0 (0 for no rows), the total market cap is the sum of the Market Cap
\* column of the filtered market table when it has one and 0 otherwise, and
\* the cards show these numbers, formatted after the sums are taken.
C5_KpiAggregation ==
    /\ kpi.protocols = Len(filtered_tvl.rows)
    /\ kpi.total_tvl = TotalUpTo(filtered_tvl, "TVL (USD)", Len(filtered_tvl.rows))
    /\ filtered_tvl.rows = <<>> => kpi.total_tvl = 0
    /\ kpi.total_market_cap =
          IF "Market Cap (USD)" \in filtered_market.columns
          THEN TotalUpTo(filtered_market, "Market Cap (USD)", Len(filtered_market.rows))
          ELSE 0
    /\ cards.protocols = ToString(kpi.protocols)
    /\ cards.total_tvl = format_currency(kpi.total_tvl)
    /\ cards.total_market_cap = format_currency(kpi.total_market_cap)

\* A total over a column with a missing value and an amount.
C5_Witness ==
    /\ NaN \in Values(filtered_tvl, "TVL (USD)")
    /\ kpi.total_tvl > 0
    /\ kpi.protocols >= 2

\* Every filtered table is empty and every KPI is 0.
AllEmpty ==
    /\ filtered_tvl.rows = <<>>
    /\ filtered_revenue.rows = <<>>
    /\ filtered_fees.rows = <<>>
    /\ filtered_market.rows = <<>>
    /\ kpi = [protocols |-> 0, total_tvl |-> 0, total_market_cap |-> 0]

\* C6 as stated: with a Category column, an empty protocol selection or an
\* empty category selection gives empty filtered tables and zero KPIs, and
\* no error.
C6_EmptySelection ==
    HasCategory /\ (selected_protocols = {} \/ selected_categories = {})
        => AllEmpty /\ error = "none"

\* C6 as amended: with a Category column, an empty protocol selection gives
\* empty filtered tables and zero KPIs, and no error; an empty category
\* selection gives no error either but filters nothing: the filtered TVL
\* table is the one the protocol selection alone gives.
C6_EmptySelectionByProtocol ==
    HasCategory =>
        /\ selected_protocols = {} => AllEmpty /\ error = "none"
        /\ selected_categories = {} =>
              /\ filtered_tvl = Kept(df_protocols_tvl, selected_protocols)
              /\ error = "none"

\* Nothing is selected although the files have rows for every table.
C6_Witness ==
    /\ HasCategory
    /\ selected_protocols = {}
    /\ selected_categories # {}
    /\ AllEmpty
    /\ df_protocols_tvl.rows # <<>>
    /\ df_protocols_market_data.rows # <<>>

\* C7: a ranking whose filtered table has no rows is empty and neither its
\* table nor its chart is drawn, without an error; a ranking is drawn only
\* when its filtered table has rows.
C7_EmptyTableDisplay ==
    /\ filtered_tvl.rows = <<>>
          => top_tvl.rows = <<>> /\ "tvl_chart" \notin rendered /\ error = "none"
    /\ filtered_revenue.rows = <<>>
          => /\ top_revenue.rows = <<>>
             /\ rendered \cap {"revenue_table", "revenue_chart"} = {}
             /\ error = "none"
    /\ filtered_fees.rows = <<>>
          => /\ top_fees.rows = <<>>
             /\ rendered \cap {"fees_table", "fees_chart"} = {}
             /\ error = "none"
    /\ "tvl_chart" \in rendered => filtered_tvl.rows # <<>>
    /\ rendered \cap {"revenue_table", "revenue_chart"} # {} => filtered_revenue.rows # <<>>
    /\ rendered \cap {"fees_table", "fees_chart"} # {} => filtered_fees.rows # <<>>

\* C8: format_currency gives "$0" for None, NaN and 0, and otherwise the
\* amount in the largest of the units 10^9 (B), 10^6 (M), 10^3 (K) and 1 it
\* reaches, with two decimals; the four boundary amounts format as stated.
C8_CurrencyFormatter ==
    /\ amount \in {None, NaN, 0} => formatted = "$0"
    /\ amount >= 10^9 => formatted = "$" \o Fixed2(Hundredths(amount, 10^9)) \o "B"
    /\ amount >= 10^6 /\ amount < 10^9
          => formatted = "$" \o Fixed2(Hundredths(amount, 10^6)) \o "M"
    /\ amount >= 10^3 /\ amount < 10^6
          => formatted = "$" \o Fixed2(Hundredths(amount, 10^3)) \o "K"
    /\ amount > 0 /\ amount < 10^3 => formatted = "$" \o Fixed2(amount * 100)
    /\ amount = 999 => formatted = "$999.00"
    /\ amount = 1000 => formatted = "$1.00K"
    /\ amount = 1000000 => formatted = "$1.00M"
    /\ amount = 1000000000 => formatted = "$1.00B"

\* The formatter was called on the first amount of the K range.
C8_Witness == amount = 1000 /\ formatted = "$1.00K"

\* C9: without a Category column the filtered TVL table is the one the
\* protocol selection alone gives, and no error is raised.
C9_CategoryNoOp ==
    ~HasCategory =>
        /\ filtered_tvl = Kept(df_protocols_tvl, selected_protocols)
        /\ error = "none"

\* The same without the last conjunct: the filter itself raises nothing.
FilterNoOpWithoutCategory ==
    ~HasCategory =>
        /\ filtered_tvl = Kept(df_protocols_tvl, selected_protocols)
        /\ error # "KeyError"

\* What one run computes and draws.
Outputs ==
    [df_protocols_tvl |-> df_protocols_tvl,
     df_protocols_revenue |-> df_protocols_revenue,
     df_protocols_fees |-> df_protocols_fees,
     df_protocols_market_data |-> df_protocols_market_data,
     filtered_tvl |-> filtered_tvl,
     filtered_fees |-> filtered_fees,
     filtered_revenue |-> filtered_revenue,
     filtered_market |-> filtered_market,
     kpi |-> kpi,
     cards |-> cards,
     overview_df |-> overview_df,
     overview_shown |-> overview_shown,
     top_tvl |-> top_tvl,
     top_revenue |-> top_revenue,
     top_fees |-> top_fees,
     rendered |-> rendered,
     error |-> error]

\* C10: after any sequence of selection changes the four files and the four
\* loaded tables are what they were at the start, and everything the last
\* run computed is what a run on the files of the start gives for the
\* current selection, whatever was selected before.
C10_StatelessRecomputation ==
    /\ database = loaded0
    /\ df_protocols_tvl = loaded0.tvl
    /\ df_protocols_revenue = loaded0.revenue
    /\ df_protocols_fees = loaded0.fees
    /\ df_protocols_market_data = loaded0.market
    /\ Outputs = Run(loaded0, selected_protocols, selected_categories)

\* The selection was changed and filters some rows out.
C10_Witness ==
    /\ selected_protocols # default_protocols(df_protocols_tvl)
    /\ selected_categories # categories(df_protocols_tvl)
    /\ filtered_tvl.rows # <<>>
    /\ Len(filtered_tvl.rows) < Len(df_protocols_tvl.rows)
    /\ Len(filtered_market.rows) < Len(df_protocols_market_data.rows)

====
